---- MODULE Spec2Model ----
(***************************************************************************)
(* whisper-script: silence parsing, segment planning and the per-window    *)
(* filter/extract loop of src/src/preprocessing/audio_splitter.py.         *)
(*                                                                         *)
(* Time is an integer count of half seconds, so that the midpoint of a     *)
(* silence whose ends are whole seconds is exact: Secs(41) is 41.0 s and   *)
(* 201 is 100.5 s.  Floating-point rounding is not modelled.               *)
(***************************************************************************)
EXTENDS Integers, Sequences, FiniteSets, TLC

VARIABLES
    silences,        \* planner input: the list of SilenceSegment
    total_duration,  \* planner input
    min_len,         \* planner input: min_segment_length
    max_len,         \* planner input: max_segment_length
    plan_pc,         \* "call", "returned", or "looping" (the call never returns)
    segments,        \* the list calculate_split_points returns (or has built so far)
    branch,          \* for each element of segments, the statement that appended it
    lines,           \* detect_silences: result.stderr.split('\n')
    line_idx,        \* detect_silences: the line the for loop of line 82 reads next
    silence_start,   \* detect_silences: the pending start, None or <<seconds>>
    detected,        \* detect_silences: its local list "silences"
    parse_pc,        \* "scan", "returned", or "raised" (float() or [0] raised)
    split_points,    \* process_audio_file: the planned windows
    silence_ratio_threshold,  \* process_audio_file: its parameter, a fraction
    win_idx,         \* process_audio_file: the window the loop of line 303 reads next
    silence_ratio,   \* process_audio_file: the ratio measured for the last window read
    segment_index,   \* process_audio_file: the next index to give out
    segments_metadata,  \* process_audio_file: the records appended so far
    extract_calls,   \* the calls of split_audio_segment made so far
    output_files,    \* the segment files present in the output directory
    ledger,          \* metadata.json of the splitter: None or <<the document>>
    ledger_writes,   \* the calls of save_metadata made so far
    proc_pc,         \* "loop", "returned", "raised", "done" or "exit1"
    metadata_file,   \* merge_transcripts: what metadata.json holds on disk
    transcripts,     \* merge_transcripts: the files of transcripts/, name -> content
    merged_parts,    \* merge_transcripts: its list merged_parts
    warnings,        \* merge_transcripts: the print_warning calls made
    merge_path,      \* merge_transcripts: "ledger" or "fallback", the branch of line 185
    output_writes,   \* merge_transcripts: the calls of output_file.write_text
    output_file,     \* merged_transcript.txt: None or <<the parts written>>
    merge_ret,       \* merge_transcripts: the value returned
    merge_pc,        \* "call", "returned", or "raised" (an exception left the call)
    cleaned,         \* clean_transcript: None or <<the lines of the cleaned document>>
    audio_files,     \* batch main: the inputs found, in the order of find_audio_files
    file_idx,        \* batch main: the position of the loop of line 491 in audio_files
    results,         \* batch main: its list results
    stage_calls,     \* batch: the stage functions called so far, as [file, stage]
    wav_deleted,     \* batch: the inputs whose segment_*.wav files were unlinked
    summary,         \* batch main: None or <<the failed files listed, lines 507-512>>
    batch_pc,        \* "loop", "done", or "raised" (an exception left main)
    master_results,  \* merge_all_transcripts: the results it is called with
    master_warnings, \* merge_all_transcripts: the files it warned about, in order
    master_file,     \* None or <<the sections of all_meetings_transcript.txt>>
    master_pc        \* "call" or "returned"

planVars == <<silences, total_duration, min_len, max_len, plan_pc, segments, branch>>
parseVars == <<lines, line_idx, silence_start, detected, parse_pc>>
procVars == <<split_points, silence_ratio_threshold, win_idx, silence_ratio,
              segment_index, segments_metadata, extract_calls, output_files,
              ledger, ledger_writes, proc_pc>>
mergeVars == <<metadata_file, transcripts, merged_parts, warnings, merge_path,
               output_writes, output_file, merge_ret, merge_pc, cleaned>>
batchVars == <<audio_files, file_idx, results, stage_calls, wav_deleted, summary,
               batch_pc>>
masterVars == <<master_results, master_warnings, master_file, master_pc>>
vars == <<planVars, parseVars, procVars, mergeVars, batchVars, masterVars>>

----------------------------------------------------------------------------
(* Bounds of the model *)

MaxT == 3        \* silence ends and total_duration range over 0..MaxT seconds
MaxSil == 2      \* longest silence list
MaxLen == 2      \* min_segment_length, max_segment_length range over 0..MaxLen seconds

MaxLines == 4    \* longest diagnostic stream, in lines
MaxTs == 1       \* timestamps on diagnostic lines range over 0..MaxTs seconds
MaxProcSil == 1  \* longest silence list behind the windows process_audio_file reads
MaxFiles == 3    \* transcript files are named by the indices 1..MaxFiles
MaxRecs == 2     \* longest "segments" array of a ledger on disk
MaxInputs == 3   \* most audio files the batch finds in its input directory

Secs(n) == 2 * n

\* The tiling loop of lines 148-151 is cut after this many windows; no input
\* of the model with max_segment_length > 0 needs that many.
MaxWindows == MaxT + 1

----------------------------------------------------------------------------
(* Program constants *)

DefaultMinSegment == 30
DefaultMaxSegment == 120

----------------------------------------------------------------------------
(* Data *)

Min(a, b) == IF a < b THEN a ELSE b

\* SilenceSegment(start, end, duration), built as lines 98-104 build it
SilenceSegment(s, e) == [start |-> s, end |-> e, duration |-> e - s]

Times == {Secs(t) : t \in 0..MaxT}
Lengths == {Secs(t) : t \in 0..MaxLen}

\* silencedetect reports a silence that begins with the stream at a time
\* slightly below zero, so a start of -1 s is among the inputs
SilenceValues == {SilenceSegment(s, e) : s \in Times \cup {Secs(-1)}, e \in Times}

SilenceLists ==
    UNION {[1..n -> {x \in SilenceValues : x.start <= x.end}] : n \in 0..MaxSil}

\* The scenarios of the specification's section 8
ScenarioSilences ==
    [silences |-> <<SilenceSegment(Secs(40), Secs(42)),
                    SilenceSegment(Secs(100), Secs(101))>>,
     total_duration |-> Secs(180),
     min_len |-> Secs(DefaultMinSegment),
     max_len |-> Secs(DefaultMaxSegment)]

ScenarioTiling ==
    [silences |-> <<>>,
     total_duration |-> Secs(250),
     min_len |-> Secs(DefaultMinSegment),
     max_len |-> Secs(DefaultMaxSegment)]

PlannerInputs ==
    [silences : SilenceLists, total_duration : Times,
     min_len : Lengths, max_len : Lengths]
    \cup {ScenarioSilences, ScenarioTiling}

----------------------------------------------------------------------------
(* calculate_split_points *)

\* one element of the result together with the statement that appended it
Commit(s, e, by) == [win |-> <<s, e>>, by |-> by]

TileEndNoClamp(current, max_segment_length, total) ==
    current + max_segment_length

\* line 149
TileEnd(current, max_segment_length, total) ==
    Min(current + max_segment_length, total)

\* lines 146-152: while current < total_duration
RECURSIVE TileByTime(_, _, _, _)
TileByTime(current, total, max_segment_length, segs) ==
    IF ~(current < total) THEN [returned |-> TRUE, commits |-> segs]
    ELSE IF Len(segs) >= MaxWindows THEN [returned |-> FALSE, commits |-> segs]
    ELSE LET end == TileEnd(current, max_segment_length, total)
         IN  TileByTime(end, total, max_segment_length,
                        Append(segs, Commit(current, end, "tile")))

SplitAtSilenceStart(silence) == silence.start

\* line 159
SplitPoint(silence) == (silence.start + silence.end) \div 2

EnoughContentAny(segment_duration, min_segment_length) ==
    segment_duration > 0

\* line 163
EnoughContent(segment_duration, min_segment_length) ==
    segment_duration >= min_segment_length

\* a mutant of TooLong: the comparison of line 168 turned round
TooLongInverted(segment_duration, max_segment_length) ==
    segment_duration <= max_segment_length

\* line 168
TooLong(segment_duration, max_segment_length) ==
    segment_duration >= max_segment_length

\* lines 157-170: for silence in silences
RECURSIVE WalkSilences(_, _, _, _, _, _)
WalkSilences(sil, i, current_start, min_segment_length, max_segment_length, segs) ==
    IF i > Len(sil) THEN [current_start |-> current_start, commits |-> segs]
    ELSE LET split_point == SplitPoint(sil[i])
             segment_duration == split_point - current_start
         IN  IF EnoughContent(segment_duration, min_segment_length)
             THEN WalkSilences(sil, i + 1, split_point, min_segment_length,
                               max_segment_length,
                               Append(segs, Commit(current_start, split_point, "min")))
             ELSE IF TooLong(segment_duration, max_segment_length)
             THEN WalkSilences(sil, i + 1, split_point, min_segment_length,
                               max_segment_length,
                               Append(segs, Commit(current_start, split_point, "max")))
             ELSE WalkSilences(sil, i + 1, current_start, min_segment_length,
                               max_segment_length, segs)

\* lines 172-174
FinalSegment(current_start, total, segs) ==
    IF current_start < total
    THEN Append(segs, Commit(current_start, total, "final"))
    ELSE segs

\* lines 143-176
PlanCommits(sil, total, min_segment_length, max_segment_length) ==
    IF sil = <<>>
    THEN TileByTime(0, total, max_segment_length, <<>>)
    ELSE LET w == WalkSilences(sil, 1, 0, min_segment_length,
                               max_segment_length, <<>>)
         IN  [returned |-> TRUE,
              commits |-> FinalSegment(w.current_start, total, w.commits)]

Windows(commits) == [k \in 1..Len(commits) |-> commits[k].win]
Branches(commits) == [k \in 1..Len(commits) |-> commits[k].by]

calculate_split_points(sil, total, min_segment_length, max_segment_length) ==
    Windows(PlanCommits(sil, total, min_segment_length, max_segment_length).commits)

----------------------------------------------------------------------------
(* detect_silences, lines 78-108: the scan of the diagnostic stream *)

None == <<>>

\* A diagnostic line, by what the scan reads of it:
\*   tagged      'silencedetect' in line                          (line 83)
\*   start_word  'silence_start' in line                          (line 84)
\*   start_mark  line.split('silence_start:') has a second part   (lines 86-87)
\*   end_word    'silence_end' in line                            (line 90)
\*   end_mark    line.split('silence_end:') has a second part     (lines 92-93)
\*   tok         the text float() is given, lines 88 and 95: a number, text
\*               that is no number, or nothing at all (split()[0] has no element)
Line(tagged, start_word, start_mark, end_word, end_mark, tok) ==
    [tagged |-> tagged, start_word |-> start_word, start_mark |-> start_mark,
     end_word |-> end_word, end_mark |-> end_mark, tok |-> tok]

Num(t) == [kind |-> "num", val |-> t]
Text == [kind |-> "text", val |-> 0]
Empty == [kind |-> "empty", val |-> 0]

Stamps == {Secs(t) : t \in 0..MaxTs}

StartLine(tok) == Line(TRUE, TRUE, TRUE, FALSE, FALSE, tok)
EndLine(tok) == Line(TRUE, FALSE, FALSE, TRUE, TRUE, tok)

LineValues ==
    {StartLine(Num(t)) : t \in Stamps} \cup {EndLine(Num(t)) : t \in Stamps}
    \cup { Line(FALSE, FALSE, FALSE, FALSE, FALSE, Empty),  \* progress output
           StartLine(Text),                       \* "silence_start: N/A"
           EndLine(Text),                         \* "silence_end: N/A | ..."
           EndLine(Empty),                        \* "silence_end: | silence_duration: 2"
           Line(FALSE, FALSE, FALSE, TRUE, TRUE, Num(0)),  \* the marker without the tag
           Line(TRUE, TRUE, FALSE, TRUE, TRUE, Num(0)) }   \* "silence_start" without ':' before an end marker

Streams == UNION {[1..n -> LineValues] : n \in 0..MaxLines}

\* float(...split()[0]) of lines 88 and 95 returns a value
Parses(tok) == tok.kind = "num"
float(tok) == tok.val

\* lines 84-88: the branch the line takes, and whether it assigns
IsStartBranch(line) == line.tagged /\ line.start_word
\* line 90
IsEndBranch(line, pending) ==
    line.tagged /\ ~line.start_word /\ line.end_word /\ pending # None

RecordEndKeepPending(sil, pending, silence_end) ==
    [detected |-> Append(sil, SilenceSegment(pending[1], silence_end)),
     silence_start |-> pending]

\* lines 98-105
RecordEnd(sil, pending, silence_end) ==
    [detected |-> Append(sil, SilenceSegment(pending[1], silence_end)),
     silence_start |-> None]

ParseInit ==
    /\ lines \in Streams
    /\ line_idx = 1
    /\ silence_start = None
    /\ detected = <<>>
    /\ parse_pc = "scan"

Scanning == parse_pc = "scan" /\ line_idx <= Len(lines)

\* lines 84-88 with a timestamp that parses
ParseStart ==
    /\ Scanning
    /\ LET line == lines[line_idx] IN
          /\ IsStartBranch(line) /\ line.start_mark /\ Parses(line.tok)
          /\ silence_start' = <<float(line.tok)>>
    /\ line_idx' = line_idx + 1
    /\ UNCHANGED <<lines, detected, parse_pc>>

\* lines 90-105 with a timestamp that parses
ParseEnd ==
    /\ Scanning
    /\ LET line == lines[line_idx]
           r == RecordEnd(detected, silence_start, float(line.tok))
       IN  /\ IsEndBranch(line, silence_start) /\ line.end_mark /\ Parses(line.tok)
           /\ detected' = r.detected
           /\ silence_start' = r.silence_start
    /\ line_idx' = line_idx + 1
    /\ UNCHANGED <<lines, parse_pc>>

\* lines 88 and 95: float() raises ValueError, or [0] raises IndexError; nothing
\* in detect_silences, process_audio_file or main catches it
ParseRaise ==
    /\ Scanning
    /\ LET line == lines[line_idx] IN
          /\ \/ IsStartBranch(line) /\ line.start_mark
             \/ IsEndBranch(line, silence_start) /\ line.end_mark
          /\ ~Parses(line.tok)
    /\ parse_pc' = "raised"
    /\ UNCHANGED <<lines, line_idx, silence_start, detected>>

\* every other line: no branch is taken, or the marker has no ':' part
ParseSkip ==
    /\ Scanning
    /\ LET line == lines[line_idx] IN
          /\ ~(IsStartBranch(line) /\ line.start_mark)
          /\ ~(IsEndBranch(line, silence_start) /\ line.end_mark)
    /\ line_idx' = line_idx + 1
    /\ UNCHANGED <<lines, silence_start, detected, parse_pc>>

\* lines 107-108
ParseReturn ==
    /\ parse_pc = "scan"
    /\ line_idx > Len(lines)
    /\ parse_pc' = "returned"
    /\ UNCHANGED <<lines, line_idx, silence_start, detected>>

----------------------------------------------------------------------------
(* The planner called on one input *)

PlanInit ==
    /\ \E in \in PlannerInputs :
          /\ silences = in.silences
          /\ total_duration = in.total_duration
          /\ min_len = in.min_len
          /\ max_len = in.max_len
    /\ plan_pc = "call"
    /\ segments = <<>>
    /\ branch = <<>>

PlanResult == PlanCommits(silences, total_duration, min_len, max_len)

\* the call returns its list
PlanReturn ==
    /\ plan_pc = "call"
    /\ PlanResult.returned
    /\ plan_pc' = "returned"
    /\ segments' = calculate_split_points(silences, total_duration, min_len, max_len)
    /\ branch' = Branches(PlanResult.commits)
    /\ UNCHANGED <<silences, total_duration, min_len, max_len>>

\* the loop of lines 148-151 does not end: the list grows without a return
PlanLoop ==
    /\ plan_pc = "call"
    /\ ~PlanResult.returned
    /\ plan_pc' = "looping"
    /\ segments' = Windows(PlanResult.commits)
    /\ branch' = Branches(PlanResult.commits)
    /\ UNCHANGED <<silences, total_duration, min_len, max_len>>

----------------------------------------------------------------------------
(* process_audio_file, lines 299-339: filter and extract each planned window *)

\* a fraction num/den with den > 0
Frac(n, d) == [num |-> n, den |-> d]

\* line 208
calculate_segment_silence_ratio(total_silence, duration) ==
    IF duration > 0 THEN Frac(total_silence, duration) ELSE Frac(0, 1)

IsMostlySilentInclusive(ratio, threshold) ==
    ratio.num * threshold.den >= threshold.num * ratio.den

\* line 316: silence_ratio > silence_ratio_threshold
IsMostlySilent(ratio, threshold) ==
    ratio.num * threshold.den > threshold.num * ratio.den

\* the decimal digits of n >= 0, most significant first
RECURSIVE Digits(_)
Digits(n) == IF n < 10 THEN <<n>> ELSE Append(Digits(n \div 10), n % 10)

\* format spec 03d: at least three digits, padded with zeros on the left
RECURSIVE ZeroPad3(_)
ZeroPad3(ds) == IF Len(ds) >= 3 THEN ds ELSE ZeroPad3(<<0>> \o ds)

\* a mutant of SegmentFilename: the index is not padded
SegmentFilenameUnpadded(index) ==
    [prefix |-> "segment_", digits |-> Digits(index), ext |-> ".wav"]

\* line 323: f"segment_{segment_index:03d}.wav"
SegmentFilename(index) ==
    [prefix |-> "segment_", digits |-> ZeroPad3(Digits(index)), ext |-> ".wav"]

\* lines 328-334
AudioSegment(filename, start_time, end_time, duration, index) ==
    [filename |-> filename, start_time |-> start_time, end_time |-> end_time,
     duration |-> duration, segment_index |-> index]

\* the silence-ratio threshold: the default 0.9 of line 254 and three others
Thresholds == {Frac(9, 10), Frac(1, 2), Frac(0, 1), Frac(1, 1)}

\* the planner inputs behind the windows of this loop, those with
\* min_len <= max_len for which the planner returns; the last is a single
\* 10 s window, in which 9.5 s of silence is a ratio of 0.95
ProcInputs ==
    {in \in [silences : SilenceLists, total_duration : Times,
             min_len : Lengths, max_len : Lengths] :
        /\ Len(in.silences) <= MaxProcSil
        /\ in.min_len <= in.max_len
        /\ PlanCommits(in.silences, in.total_duration, in.min_len, in.max_len).returned}
    \cup {[silences |-> <<>>, total_duration |-> Secs(10),
           min_len |-> Secs(DefaultMinSegment), max_len |-> Secs(DefaultMaxSegment)]}

\* lines 285-299: the windows planned for one of the inputs, nothing extracted
ProcInitOn(inputs) ==
    /\ \E in \in inputs :
          split_points = calculate_split_points(in.silences, in.total_duration,
                                                in.min_len, in.max_len)
    /\ silence_ratio_threshold \in Thresholds
    /\ win_idx = 1
    /\ silence_ratio = Frac(0, 1)
    /\ segment_index = 1
    /\ segments_metadata = <<>>
    /\ extract_calls = <<>>
    /\ output_files = {}
    /\ ledger = None
    /\ ledger_writes = 0
    /\ proc_pc = "loop"

ProcInit == ProcInitOn(ProcInputs)

InLoop == proc_pc = "loop" /\ win_idx <= Len(split_points)

\* what the silence detection of lines 189-206 can add up to for a window
MeasuredSilence(duration) == 0..(IF duration > 0 THEN duration ELSE 0)

\* What the subprocess.run of line 239 can do: exit 0 having written the
\* output, exit 0 without an output file, exit non-zero (check=True raises
\* CalledProcessError), or find no ffmpeg to run (FileNotFoundError).
ToolOutcomes == {"written", "no_output", "nonzero", "missing"}

\* lines 238-244: only CalledProcessError is caught
split_audio_segment(tool) ==
    [raised |-> tool = "missing", ret |-> tool \in {"written", "no_output"}]

\* a mutant of NextSegmentIndex: every extraction attempt uses up an index
NextSegmentIndexAlways(index, extracted) == index + 1

\* lines 327 and 335: segment_index += 1 inside "if split_audio_segment(...)"
NextSegmentIndex(index, extracted) == IF extracted THEN index + 1 ELSE index

\* the call of lines 327 as the stub of ffmpeg sees it, with its outcome
ExtractCall(output, start_time, duration, tool) ==
    [output |-> output, start_time |-> start_time, duration |-> duration,
     ok |-> split_audio_segment(tool).ret, tool |-> tool]

\* lines 303-318: the window is mostly silent, continue
ProcSkip ==
    /\ InLoop
    /\ LET start_time == split_points[win_idx][1]
           end_time == split_points[win_idx][2]
           duration == end_time - start_time
       IN  \E total_silence \in MeasuredSilence(duration) :
              /\ silence_ratio' = calculate_segment_silence_ratio(total_silence, duration)
              /\ IsMostlySilent(silence_ratio', silence_ratio_threshold)
    /\ win_idx' = win_idx + 1
    /\ UNCHANGED <<split_points, silence_ratio_threshold, segment_index,
                   segments_metadata, extract_calls, proc_pc, output_files,
                   ledger, ledger_writes>>

\* lines 303-335: the window is kept and split_audio_segment returns True
ProcExtract ==
    /\ InLoop
    /\ LET start_time == split_points[win_idx][1]
           end_time == split_points[win_idx][2]
           duration == end_time - start_time
           output_filename == SegmentFilename(segment_index)
       IN  /\ \E total_silence \in MeasuredSilence(duration) :
                 /\ silence_ratio' = calculate_segment_silence_ratio(total_silence, duration)
                 /\ ~IsMostlySilent(silence_ratio', silence_ratio_threshold)
           /\ \E tool \in ToolOutcomes :
                 /\ ~split_audio_segment(tool).raised
                 /\ split_audio_segment(tool).ret
                 /\ extract_calls' = Append(extract_calls,
                        ExtractCall(output_filename, start_time, duration, tool))
                 /\ output_files' = IF tool = "written"
                                    THEN output_files \cup {output_filename}
                                    ELSE output_files
           /\ segments_metadata' = Append(segments_metadata,
                  AudioSegment(output_filename, start_time, end_time, duration,
                               segment_index))
    /\ segment_index' = NextSegmentIndex(segment_index, TRUE)
    /\ win_idx' = win_idx + 1
    /\ UNCHANGED <<split_points, silence_ratio_threshold, proc_pc, ledger,
                   ledger_writes>>

\* lines 303-327 and 242-244: the window is kept and split_audio_segment
\* returns False
ProcExtractFails ==
    /\ InLoop
    /\ LET start_time == split_points[win_idx][1]
           end_time == split_points[win_idx][2]
           duration == end_time - start_time
           output_filename == SegmentFilename(segment_index)
       IN  /\ \E total_silence \in MeasuredSilence(duration) :
                 /\ silence_ratio' = calculate_segment_silence_ratio(total_silence, duration)
                 /\ ~IsMostlySilent(silence_ratio', silence_ratio_threshold)
           /\ \E tool \in ToolOutcomes :
                 /\ ~split_audio_segment(tool).raised
                 /\ ~split_audio_segment(tool).ret
                 /\ extract_calls' = Append(extract_calls,
                        ExtractCall(output_filename, start_time, duration, tool))
    /\ segment_index' = NextSegmentIndex(segment_index, FALSE)
    /\ win_idx' = win_idx + 1
    /\ UNCHANGED <<split_points, silence_ratio_threshold, segments_metadata,
                   proc_pc, output_files, ledger, ledger_writes>>

\* lines 303-327 and 239: the window is kept and the exception of
\* subprocess.run leaves split_audio_segment, process_audio_file and main
ProcExtractRaises ==
    /\ InLoop
    /\ LET start_time == split_points[win_idx][1]
           end_time == split_points[win_idx][2]
           duration == end_time - start_time
           output_filename == SegmentFilename(segment_index)
       IN  /\ \E total_silence \in MeasuredSilence(duration) :
                 /\ silence_ratio' = calculate_segment_silence_ratio(total_silence, duration)
                 /\ ~IsMostlySilent(silence_ratio', silence_ratio_threshold)
           /\ \E tool \in ToolOutcomes :
                 /\ split_audio_segment(tool).raised
                 /\ extract_calls' = Append(extract_calls,
                        ExtractCall(output_filename, start_time, duration, tool))
    /\ proc_pc' = "raised"
    /\ UNCHANGED <<split_points, silence_ratio_threshold, win_idx, segment_index,
                   segments_metadata, output_files, ledger, ledger_writes>>

\* lines 337-339
ProcReturn ==
    /\ proc_pc = "loop"
    /\ win_idx > Len(split_points)
    /\ proc_pc' = "returned"
    /\ UNCHANGED <<split_points, silence_ratio_threshold, win_idx, silence_ratio,
                   segment_index, segments_metadata, extract_calls, output_files,
                   ledger, ledger_writes>>

\* a mutant of save_metadata: the records are written last first
save_metadata_reversed(segs) ==
    [source_file |-> "input", total_segments |-> Len(segs),
     segments |-> [k \in 1..Len(segs) |-> segs[Len(segs) + 1 - k]]]

\* lines 344-351: the document save_metadata dumps to metadata.json
save_metadata(segs) ==
    [source_file |-> "input", total_segments |-> Len(segs), segments |-> segs]

\* main, lines 433-436: "if segments:" and save_metadata writes the ledger
MainSave ==
    /\ proc_pc = "returned"
    /\ segments_metadata # <<>>
    /\ ledger' = <<save_metadata(segments_metadata)>>
    /\ ledger_writes' = ledger_writes + 1
    /\ proc_pc' = "done"
    /\ UNCHANGED <<split_points, silence_ratio_threshold, win_idx, silence_ratio,
                   segment_index, segments_metadata, extract_calls, output_files>>

\* main, lines 433-436 and 352: open(output_path, 'w') raises, nothing is written
MainSaveRaises ==
    /\ proc_pc = "returned"
    /\ segments_metadata # <<>>
    /\ ledger_writes' = ledger_writes + 1
    /\ proc_pc' = "raised"
    /\ UNCHANGED <<split_points, silence_ratio_threshold, win_idx, silence_ratio,
                   segment_index, segments_metadata, extract_calls, output_files,
                   ledger>>

\* main, lines 443-445: no segment survived, sys.exit(1) without a ledger
MainNoSegments ==
    /\ proc_pc = "returned"
    /\ segments_metadata = <<>>
    /\ proc_pc' = "exit1"
    /\ UNCHANGED <<split_points, silence_ratio_threshold, win_idx, silence_ratio,
                   segment_index, segments_metadata, extract_calls, output_files,
                   ledger, ledger_writes>>

----------------------------------------------------------------------------
(* merge_transcripts, src/pipelines/multilang_batch.py lines 162-237 *)

\* line 191: f"{Path(seg['filename']).stem}.txt"
TxtName(filename) ==
    [prefix |-> filename.prefix, digits |-> filename.digits, ext |-> ".txt"]

\* the transcript of the segment the extractor gave index i
TranscriptName(i) == TxtName(SegmentFilename(i))

\* One record of the "segments" array of a ledger on disk.  has_filename says
\* whether the JSON object has the key 'filename' (line 191 subscripts it).
LedgerRecord(i) ==
    [has_filename |-> TRUE, filename |-> SegmentFilename(i),
     start_time |-> Secs(i - 1), end_time |-> Secs(i)]

NamelessRecord ==
    [has_filename |-> FALSE, filename |-> SegmentFilename(0),
     start_time |-> 0, end_time |-> 0]

\* What metadata.json can hold, by what lines 174-190 do with it:
\*   absent    open() raises                        invalid   json.load raises
\*   null      the JSON value null                  number    a non-zero number
\*   list      a non-empty array of numbers         object    a JSON object; has_segments
\*   says whether it has the key 'segments', segments_is_list whether that value
\*   is an array, and segments is the array
LedgerFile(kind, has_segments, segments_is_list, segs) ==
    [kind |-> kind, has_segments |-> has_segments,
     segments_is_list |-> segments_is_list, segments |-> segs]

RecordValues == {LedgerRecord(i) : i \in 1..MaxFiles} \cup {NamelessRecord}

RecordLists == UNION {[1..n -> RecordValues] : n \in 0..MaxRecs}

LedgerFiles ==
    {LedgerFile(k, FALSE, FALSE, <<>>) : k \in {"absent", "invalid", "null", "number", "list"}}
    \cup {LedgerFile("object", FALSE, FALSE, <<>>),     \* {"source_file": "a.wav"}
          LedgerFile("object", TRUE, FALSE, <<>>)}      \* {"segments": 3}
    \cup {LedgerFile("object", TRUE, TRUE, segs) : segs \in RecordLists}

\* the ledger save_metadata writes for these records (audio_splitter.py 344-351)
WrittenLedger(records) ==
    LedgerFile("object", TRUE, TRUE,
               [k \in 1..Len(records) |->
                   [has_filename |-> TRUE, filename |-> records[k].filename,
                    start_time |-> records[k].start_time,
                    end_time |-> records[k].end_time]])

\* a transcript file holds text, only white space, or cannot be read
Contents == {"text", "blank", "unreadable"}

TranscriptDirs ==
    UNION {[{TranscriptName(i) : i \in present} -> Contents] :
              present \in SUBSET (1..MaxFiles)}

\* the orders in which a directory can list the files of S
Listings(S) ==
    {f \in [1..Cardinality(S) -> S] :
        \A i, j \in 1..Cardinality(S) : i # j => f[i] # f[j]}

\* lines 175-180: the try block ends without an exception
LoadsLedger(mf) == mf.kind \notin {"absent", "invalid"}

\* line 185, "metadata and ...": the truth value of what json.load returned
\* (the number is not 0, and the list and the objects are not empty)
Truthy(mf) == mf.kind \in {"number", "list", "object"}

\* line 185, "'segments' in metadata" raises TypeError on a number
MembershipRaises(mf) == mf.kind = "number"

\* line 185: the ledger branch is taken
TakesLedgerPath(mf) ==
    LoadsLedger(mf) /\ Truthy(mf) /\ mf.kind = "object" /\ mf.has_segments

\* the parts of one block: header, content, blank line
Header(name, timed, start_time, end_time) ==
    [kind |-> "header", file |-> name, timed |-> timed,
     start_time |-> start_time, end_time |-> end_time]
Content(name) ==
    [kind |-> "content", file |-> name, timed |-> FALSE,
     start_time |-> 0, end_time |-> 0]
BlankLine(name) ==
    [kind |-> "blank", file |-> name, timed |-> FALSE,
     start_time |-> 0, end_time |-> 0]

Warning(kind, name) == [kind |-> kind, file |-> name]

\* a mutant of LedgerBlock: the header of line 200 without the timing
LedgerBlockUntimed(seg) ==
    <<Header(seg.filename, FALSE, 0, 0),
      Content(TxtName(seg.filename)), BlankLine(TxtName(seg.filename))>>

\* lines 200-202
LedgerBlock(seg) ==
    <<Header(seg.filename, TRUE, seg.start_time, seg.end_time),
      Content(TxtName(seg.filename)), BlankLine(TxtName(seg.filename))>>

\* lines 216-218
FallbackBlock(name) ==
    <<Header(name, FALSE, 0, 0), Content(name), BlankLine(name)>>

Collected(parts, warns, raised) ==
    [parts |-> parts, warnings |-> warns, raised |-> raised]

\* a mutant of NotFound: an absent transcript is passed over in silence
NotFoundSilent(acc, txt_file) == acc

\* lines 205-206: the transcript of the record does not exist
NotFound(acc, txt_file) ==
    Collected(acc.parts, Append(acc.warnings, Warning("not_found", txt_file)), FALSE)

\* lines 190-206: for seg in segments, from record i on
RECURSIVE WalkLedger(_, _, _, _)
WalkLedger(segs, i, files, acc) ==
    IF i > Len(segs) THEN acc
    ELSE LET seg == segs[i]
             txt_file == TxtName(seg.filename)
         IN  IF ~seg.has_filename
             THEN Collected(acc.parts, acc.warnings, TRUE)   \* KeyError, line 191
             ELSE IF txt_file \notin DOMAIN files
             THEN WalkLedger(segs, i + 1, files, NotFound(acc, txt_file))
             ELSE IF files[txt_file] = "unreadable"
             THEN WalkLedger(segs, i + 1, files,
                     Collected(acc.parts,
                               Append(acc.warnings, Warning("unreadable", txt_file)),
                               FALSE))
             ELSE IF files[txt_file] = "blank"
             THEN WalkLedger(segs, i + 1, files, acc)
             ELSE WalkLedger(segs, i + 1, files,
                     Collected(acc.parts \o LedgerBlock(seg), acc.warnings, FALSE))

\* the characters of a transcript name after "segment_", as code points up to
\* and including the '.' of ".txt"
NameKey(name) ==
    [k \in 1..(Len(name.digits) + 1) |->
        IF k <= Len(name.digits) THEN 48 + name.digits[k] ELSE 46]

\* string comparison a < b
RECURSIVE LexLess(_, _)
LexLess(a, b) ==
    IF b = <<>> THEN FALSE
    ELSE IF a = <<>> THEN TRUE
    ELSE IF a[1] # b[1] THEN a[1] < b[1]
    ELSE LexLess(Tail(a), Tail(b))

\* line 209: sorted(...) of the listed paths
RECURSIVE sorted(_)
sorted(listing) ==
    IF listing = <<>> THEN <<>>
    ELSE LET n == Len(listing)
             m == CHOOSE k \in 1..n :
                     \A j \in 1..n :
                        j # k => ~LexLess(NameKey(listing[j]), NameKey(listing[k]))
         IN  <<listing[m]>> \o
             sorted([k \in 1..(n - 1) |-> IF k < m THEN listing[k] ELSE listing[k + 1]])

\* lines 212-220: for txt_file in txt_files, from file i on
RECURSIVE WalkFiles(_, _, _, _)
WalkFiles(txt_files, i, files, acc) ==
    IF i > Len(txt_files) THEN acc
    ELSE LET txt_file == txt_files[i] IN
         IF files[txt_file] = "unreadable"
         THEN WalkFiles(txt_files, i + 1, files,
                 Collected(acc.parts,
                           Append(acc.warnings, Warning("unreadable", txt_file)),
                           FALSE))
         ELSE IF files[txt_file] = "blank"
         THEN WalkFiles(txt_files, i + 1, files, acc)
         ELSE WalkFiles(txt_files, i + 1, files,
                 Collected(acc.parts \o FallbackBlock(txt_file), acc.warnings, FALSE))

\* a mutant of RecordsToVisit: the directory is walked and the ledger looked up
RecordsInListingOrder(segs, listing) ==
    [k \in 1..Len(listing) |->
        LET match == {i \in 1..Len(segs) : TxtName(segs[i].filename) = listing[k]}
        IN  IF match # {}
            THEN segs[CHOOSE i \in match : TRUE]
            ELSE [has_filename |-> TRUE,
                  filename |-> [listing[k] EXCEPT !.ext = ".wav"],
                  start_time |-> 0, end_time |-> 0]]

\* line 190: the records the ledger branch visits, in this order
RecordsToVisit(segs, listing) == segs

\* a mutant of MergeResult: an empty merge is a success
MergeResultLenient(parts, write_ok) == write_ok

\* lines 223-237: True when there is something to write and write_text succeeds
MergeResult(parts, write_ok) == parts # <<>> /\ write_ok

\* lines 174-237.  listing is the order in which glob lists transcripts/, and
\* write_ok says whether write_text of line 225 succeeds.
merge_transcripts(mf, files, listing, write_ok) ==
    LET load_warnings ==
            IF LoadsLedger(mf) THEN <<>> ELSE <<Warning("load_failed", mf.kind)>>
        start == Collected(<<>>, load_warnings, FALSE)
        by_ledger == TakesLedgerPath(mf)
        c == IF LoadsLedger(mf) /\ MembershipRaises(mf)
             THEN Collected(<<>>, load_warnings, TRUE)      \* TypeError, line 185
             ELSE IF by_ledger /\ ~mf.segments_is_list
             THEN Collected(<<>>, load_warnings, TRUE)      \* TypeError, line 188
             ELSE IF by_ledger
             THEN WalkLedger(RecordsToVisit(mf.segments, listing), 1, files, start)
             ELSE WalkFiles(sorted(listing), 1, files, start)
        writes == IF ~c.raised /\ c.parts # <<>> THEN 1 ELSE 0
    IN  [raised |-> c.raised,
         path |-> IF by_ledger THEN "ledger" ELSE "fallback",
         parts |-> c.parts,
         warnings |-> c.warnings,
         writes |-> writes,
         written |-> IF writes = 1 /\ write_ok THEN <<c.parts>> ELSE None,
         ret |-> ~c.raised /\ MergeResult(c.parts, write_ok)]

MergeInit ==
    /\ metadata_file \in LedgerFiles
    /\ transcripts \in TranscriptDirs
    /\ merged_parts = <<>>
    /\ warnings = <<>>
    /\ merge_path = "none"
    /\ output_writes = 0
    /\ output_file = None
    /\ merge_ret = FALSE
    /\ merge_pc = "call"
    /\ cleaned = None

\* segment indices around the widths at which a decimal numeral grows
SampleIndices == {1, 2, 9, 10, 11, 99, 100, 101, 999, 1000, 1001}

\* No ledger, and the transcripts of up to MaxFiles of the segments the
\* extractor named, every one of them with text.
FallbackOrderInit ==
    /\ metadata_file = LedgerFile("absent", FALSE, FALSE, <<>>)
    /\ \E present \in SUBSET SampleIndices :
          /\ Cardinality(present) <= MaxFiles
          /\ transcripts = [f \in {TranscriptName(i) : i \in present} |-> "text"]
    /\ merged_parts = <<>>
    /\ warnings = <<>>
    /\ merge_path = "none"
    /\ output_writes = 0
    /\ output_file = None
    /\ merge_ret = FALSE
    /\ merge_pc = "call"
    /\ cleaned = None

\* the call returns True or False
MergeReturn ==
    /\ merge_pc = "call"
    /\ \E listing \in Listings(DOMAIN transcripts), write_ok \in BOOLEAN :
          LET r == merge_transcripts(metadata_file, transcripts, listing, write_ok)
          IN  /\ ~r.raised
              /\ merged_parts' = r.parts
              /\ warnings' = r.warnings
              /\ merge_path' = r.path
              /\ output_writes' = output_writes + r.writes
              /\ output_file' = r.written
              /\ merge_ret' = r.ret
    /\ merge_pc' = "returned"
    /\ UNCHANGED <<metadata_file, transcripts, cleaned>>

\* an exception of line 185, 188 or 191 leaves the call
MergeRaise ==
    /\ merge_pc = "call"
    /\ \E listing \in Listings(DOMAIN transcripts) :
          LET r == merge_transcripts(metadata_file, transcripts, listing, TRUE)
          IN  /\ r.raised
              /\ merged_parts' = r.parts
              /\ warnings' = r.warnings
              /\ merge_path' = r.path
    /\ merge_pc' = "raised"
    /\ UNCHANGED <<metadata_file, transcripts, output_writes, output_file, merge_ret,
                   cleaned>>

----------------------------------------------------------------------------
(* The batch: process_audio_file and main, src/pipelines/multilang_batch.py
   lines 269-328 and 487-493 *)

\* lines 279-285, and the fields set on the way to each return
Result(file, success, steps_completed, error) ==
    [file |-> file, success |-> success, steps_completed |-> steps_completed,
     error |-> error]

\* a mutant of process_audio_file: a failed transcription does not return
process_audio_file_on(file, pre_ok, tr_ok, merge_ok) ==
    IF ~pre_ok
    THEN Result(file, FALSE, <<>>, <<"Preprocessing failed">>)
    ELSE IF ~merge_ok
    THEN Result(file, FALSE, <<"preprocess">>, <<"Merge failed">>)
    ELSE IF ~tr_ok
    THEN Result(file, TRUE, <<"preprocess", "merge", "cleanup">>, None)
    ELSE Result(file, TRUE, <<"preprocess", "transcribe", "merge", "cleanup">>, None)

\* Lines 288-328.  pre_ok: run_preprocess returned a directory; tr_ok:
\* run_transcribe returned True; merge_ok: merge_transcripts returned True.
process_audio_file(file, pre_ok, tr_ok, merge_ok) ==
    IF ~pre_ok
    THEN Result(file, FALSE, <<>>, <<"Preprocessing failed">>)
    ELSE IF ~tr_ok
    THEN Result(file, FALSE, <<"preprocess">>, <<"Transcription failed">>)
    ELSE IF ~merge_ok
    THEN Result(file, FALSE, <<"preprocess", "transcribe">>, <<"Merge failed">>)
    ELSE Result(file, TRUE, <<"preprocess", "transcribe", "merge", "cleanup">>, None)

\* the stages in the order of lines 288-319
Stages == <<"preprocess", "transcribe", "merge", "cleanup">>

\* a mutant of StagesCalled: cleanup_segments runs whatever the merge returned
StagesCalledCleanupAlways(pre_ok, tr_ok, merge_ok) ==
    IF ~pre_ok THEN SubSeq(Stages, 1, 1)
    ELSE IF ~tr_ok THEN SubSeq(Stages, 1, 2)
    ELSE Stages

\* lines 288-319: the stage functions a call of process_audio_file calls
StagesCalled(pre_ok, tr_ok, merge_ok) ==
    IF ~pre_ok THEN SubSeq(Stages, 1, 1)
    ELSE IF ~tr_ok THEN SubSeq(Stages, 1, 2)
    ELSE IF ~merge_ok THEN SubSeq(Stages, 1, 3)
    ELSE Stages

\* the calls of one input as entries of stage_calls
CallsOf(file, stages) == [k \in 1..Len(stages) |-> [file |-> file, stage |-> stages[k]]]

\* lines 251-258: cleanup_segments unlinks the segment files of the input
Unlinked(file, stages) ==
    IF \E k \in 1..Len(stages) : stages[k] = "cleanup" THEN {file} ELSE {}

\* lines 507-512: one line per result that is not a success, in list order
RECURSIVE FailedLines(_)
FailedLines(rs) ==
    IF rs = <<>> THEN <<>>
    ELSE (IF ~Head(rs).success
          THEN <<[file |-> Head(rs).file, error |-> Head(rs).error]>>
          ELSE <<>>) \o FailedLines(Tail(rs))

\* the ledgers an input's segment directory can hold when the merge starts
BatchLedgers == {mf \in LedgerFiles : Len(mf.segments) <= 1}

\* the transcript directories an input can have when the merge starts
BatchDirs == {dir \in TranscriptDirs : DOMAIN dir \subseteq {TranscriptName(1)}}

\* lines 62-70: the files found, sorted by name; input k is the k-th name
BatchInit ==
    /\ audio_files \in {[k \in 1..n |-> k] : n \in 1..MaxInputs}
    /\ file_idx = 1
    /\ results = <<>>
    /\ stage_calls = <<>>
    /\ wav_deleted = {}
    /\ summary = None
    /\ batch_pc = "loop"

\* Lines 491-493: one round of the loop, in which process_audio_file returns
\* a result; pre_oks are the values run_preprocess can return as a truth value.
BatchRound(pre_oks) ==
    /\ batch_pc = "loop"
    /\ file_idx <= Len(audio_files)
    /\ \E pre_ok \in pre_oks, tr_ok, write_ok \in BOOLEAN,
          mf \in BatchLedgers, dir \in BatchDirs :
          \E listing \in Listings(DOMAIN dir) :
             LET m == merge_transcripts(mf, dir, listing, write_ok)
                 called == StagesCalled(pre_ok, tr_ok, m.ret)
             IN  /\ ~(pre_ok /\ tr_ok /\ m.raised)
                 /\ results' = Append(results,
                        process_audio_file(audio_files[file_idx], pre_ok, tr_ok, m.ret))
                 /\ stage_calls' = stage_calls \o CallsOf(audio_files[file_idx], called)
                 /\ wav_deleted' = wav_deleted \cup Unlinked(audio_files[file_idx], called)
    /\ file_idx' = file_idx + 1
    /\ UNCHANGED <<audio_files, summary, batch_pc>>

\* lines 491-493: one round of the loop, process_audio_file returns a result
BatchProcess == BatchRound(BOOLEAN)

\* lines 491-492 and 309: merge_transcripts raises; nothing between it and
\* the top of main catches the exception
BatchRaise ==
    /\ batch_pc = "loop"
    /\ file_idx <= Len(audio_files)
    /\ \E mf \in BatchLedgers, dir \in BatchDirs :
          \E listing \in Listings(DOMAIN dir) :
             merge_transcripts(mf, dir, listing, TRUE).raised
    /\ stage_calls' = stage_calls \o CallsOf(audio_files[file_idx], SubSeq(Stages, 1, 3))
    /\ batch_pc' = "raised"
    /\ UNCHANGED <<audio_files, file_idx, results, wav_deleted, summary>>

\* lines 495-528: the loop is over, the summary is printed
BatchSummary ==
    /\ batch_pc = "loop"
    /\ file_idx > Len(audio_files)
    /\ summary' = <<FailedLines(results)>>
    /\ batch_pc' = "done"
    /\ UNCHANGED <<audio_files, file_idx, results, stage_calls, wav_deleted>>

----------------------------------------------------------------------------
(* The batch on one input with the splitter run as its preprocess stage:    *)
(* run_preprocess, lines 73-113, starts the script as a child process       *)

\* The exit status of the splitter: 0 when main came to its end, 1 from
\* sys.exit(1) of line 445 and from an exception that leaves main.
returncode(pc) == IF pc = "done" THEN 0 ELSE 1

\* a mutant of run_preprocess: the child's exit status is not checked
run_preprocess_unchecked(script_exists, exit_status, dir_exists) ==
    script_exists /\ dir_exists

\* Lines 73-113, as the truth value of what is returned: the directory when
\* the script exists, the child exited with 0 (check=True raises
\* CalledProcessError otherwise) and the directory exists, else None.
run_preprocess(script_exists, exit_status, dir_exists) ==
    script_exists /\ exit_status = 0 /\ dir_exists

\* one input in which no silence was detected, and the splitter about to go
\* through the windows planned for it
PipelineInit ==
    /\ ProcInitOn({in \in ProcInputs : in.silences = <<>>})
    /\ audio_files = <<1>>
    /\ file_idx = 1
    /\ results = <<>>
    /\ stage_calls = <<>>
    /\ wav_deleted = {}
    /\ summary = None
    /\ batch_pc = "loop"

\* the splitter has exited
Exited == proc_pc \in {"done", "exit1", "raised"}

\* Lines 291-323 after the child has exited; the splitter made the output
\* directory before its first window (audio_splitter.py line 285).
PipelineProcess ==
    /\ Exited
    /\ BatchRound({run_preprocess(TRUE, returncode(proc_pc), TRUE)})

\* merge_transcripts raises, which needs the stages before it to have succeeded
PipelineRaise ==
    /\ Exited
    /\ run_preprocess(TRUE, returncode(proc_pc), TRUE)
    /\ BatchRaise

----------------------------------------------------------------------------
(* merge_all_transcripts, src/pipelines/multilang_batch.py lines 331-434.   *)
(* A file name is its stem and its extension, each a sequence of code       *)
(* points, so that names compare as Python compares strings.                *)

\* the code point of '_', the separator of line 365
Underscore == 95

FileName(stem, ext) == [stem |-> stem, ext |-> ext]

\* ".wav" and ".mp3", two of the extensions of line 64
Wav == <<46, 119, 97, 118>>
Mp3 == <<46, 109, 112, 51>>

\* The names of the model: "m_1_2.wav", "m_2_1.wav" and "m_1_2.mp3" have the
\* three parts the date label needs, "m.wav" and "M_9.wav" have not; "M_9.wav"
\* sorts first by its capital letter and "m.wav" sorts before "m_1_2.wav"
\* because '.' is less than '_'.
MeetingFiles ==
    { FileName(<<109, 95, 49, 95, 50>>, Wav),
      FileName(<<109, 95, 50, 95, 49>>, Wav),
      FileName(<<109, 95, 49, 95, 50>>, Mp3),
      FileName(<<109>>, Wav),
      FileName(<<77, 95, 57>>, Wav) }

\* result['file'], audio_file.name of line 280, as a string
NameString(file) == file.stem \o file.ext

\* line 365, meeting_name.split('_'), with the part being read in cur
RECURSIVE SplitParts(_, _)
SplitParts(s, cur) ==
    IF s = <<>> THEN <<cur>>
    ELSE IF Head(s) = Underscore THEN <<cur>> \o SplitParts(Tail(s), <<>>)
    ELSE SplitParts(Tail(s), Append(cur, Head(s)))

\* s[a:b] of a string for 0 <= a <= b
Slice(s, a, b) ==
    LET hi == IF b < Len(s) THEN b ELSE Len(s)
    IN  IF a >= hi THEN <<>> ELSE SubSeq(s, a + 1, hi)

\* lines 363-379: the label, "Unknown date" unless the stem has three parts
DateStr(stem) ==
    LET parts == SplitParts(stem, <<>>)
    IN  IF Len(parts) >= 3
        THEN LET date_part == parts[Len(parts) - 1]
                 time_part == parts[Len(parts)]
             IN  [known |-> TRUE,
                  year |-> Slice(date_part, 0, 4), month |-> Slice(date_part, 4, 6),
                  day |-> Slice(date_part, 6, 8), hour |-> Slice(time_part, 0, 2),
                  minute |-> Slice(time_part, 2, 4), second |-> Slice(time_part, 4, 6)]
        ELSE [known |-> FALSE, year |-> <<>>, month |-> <<>>, day |-> <<>>,
              hour |-> <<>>, minute |-> <<>>, second |-> <<>>]

\* One result as merge_all_transcripts reads it: the file name, the success
\* flag, and what merged_transcript.txt in its segments_dir is at that time:
\* "text", "blank", "absent" or "unreadable".
MasterResult(file, success, merged) ==
    [file |-> file, success |-> success, merged |-> merged]

\* lines 381-386
TranscriptData(file) ==
    [filename |-> file, meeting_name |-> file.stem, date_str |-> DateStr(file.stem)]

\* lines 341-388: the results that give a section, in the order of results,
\* and the files warned about
RECURSIVE CollectTranscripts(_)
CollectTranscripts(rs) ==
    IF rs = <<>> THEN [data |-> <<>>, warned |-> <<>>]
    ELSE LET r == Head(rs)
             rest == CollectTranscripts(Tail(rs))
         IN  IF ~r.success THEN rest
             ELSE IF r.merged \in {"absent", "unreadable"}
             THEN [rest EXCEPT !.warned = <<r.file>> \o @]
             ELSE IF r.merged = "blank" THEN rest
             ELSE [rest EXCEPT !.data = <<TranscriptData(r.file)>> \o @]

\* a mutant of sort_by_filename: the sections stay in the order of the results
sort_by_filename_omitted(data) == data

\* line 393: transcript_data.sort(key=lambda x: x['filename']); of the least
\* names the first one comes first, as in a stable sort
RECURSIVE sort_by_filename(_)
sort_by_filename(data) ==
    IF data = <<>> THEN <<>>
    ELSE LET n == Len(data)
             least == {k \in 1..n :
                         \A j \in 1..n :
                            ~LexLess(NameString(data[j].filename),
                                     NameString(data[k].filename))}
             m == CHOOSE k \in least : \A j \in least : k <= j
         IN  <<data[m]>> \o
             sort_by_filename([k \in 1..(n - 1) |-> IF k < m THEN data[k] ELSE data[k + 1]])

\* lines 405-414: section i of n
Section(i, n, data) ==
    [index |-> i, total |-> n, meeting_name |-> data.meeting_name,
     date_str |-> data.date_str, source_file |-> data.filename]

\* Lines 331-434: the sections written, or None when there is nothing to
\* merge (line 390) or the write raises (line 432).
merge_all_transcripts(rs, write_ok) ==
    LET c == CollectTranscripts(rs)
        transcript_data == sort_by_filename(c.data)
        n == Len(transcript_data)
    IN  [warned |-> c.warned,
         written |-> IF n > 0 /\ write_ok
                     THEN <<[i \in 1..n |-> Section(i, n, transcript_data[i])]>>
                     ELSE None]

\* what a result can be when the master document is made; a failed input
\* may have a merged transcript of an earlier run on disk
ResultKinds ==
    {[success |-> TRUE, merged |-> m] : m \in {"text", "blank", "absent", "unreadable"}}
        \cup {[success |-> FALSE, merged |-> "text"]}

\* the results of up to MaxInputs files with different names, in any order
MasterInit ==
    /\ \E n \in 1..MaxInputs :
          \E files \in [1..n -> MeetingFiles], kinds \in [1..n -> ResultKinds] :
             /\ \A i, j \in 1..n : i # j => files[i] # files[j]
             /\ master_results =
                   [k \in 1..n |-> MasterResult(files[k], kinds[k].success, kinds[k].merged)]
    /\ master_warnings = <<>>
    /\ master_file = None
    /\ master_pc = "call"

\* the call of line 523
MasterMerge ==
    /\ master_pc = "call"
    /\ \E write_ok \in BOOLEAN :
          LET r == merge_all_transcripts(master_results, write_ok)
          IN  /\ master_warnings' = r.warned
              /\ master_file' = r.written
    /\ master_pc' = "returned"
    /\ UNCHANGED master_results

----------------------------------------------------------------------------
(* clean_transcript.py on the merged document of one input; a line of the   *)
(* document is one of the parts merge_transcripts joined with newlines      *)

\* line 27, ^=+$ on the stripped line: a rule of '=' signs only; a header
\* has blanks between its '=' runs and a blank line has no '='
IsSeparatorLine(line) == line.kind = "separator"

\* line 31, ^===.*\.wav.*===\s*$ on the stripped line: a header whose text
\* holds ".wav"
IsSegmentMarker(line) == line.kind = "header" /\ line.file.ext = ".wav"

\* lines 13-44: the lines that stay; lines 35 and 39 match none of the lines
\* merge_transcripts writes itself
RECURSIVE remove_metadata_lines(_)
remove_metadata_lines(doc) ==
    IF doc = <<>> THEN <<>>
    ELSE (IF IsSeparatorLine(Head(doc)) \/ IsSegmentMarker(Head(doc))
          THEN <<>> ELSE <<Head(doc)>>) \o remove_metadata_lines(Tail(doc))

\* lines 155-167: of consecutive blank lines the first one stays
RECURSIVE CollapseBlankLines(_, _)
CollapseBlankLines(doc, prev_blank) ==
    IF doc = <<>> THEN <<>>
    ELSE IF Head(doc).kind = "blank"
    THEN (IF prev_blank THEN <<>> ELSE <<Head(doc)>>)
            \o CollapseBlankLines(Tail(doc), TRUE)
    ELSE <<Head(doc)>> \o CollapseBlankLines(Tail(doc), FALSE)

\* line 178, text.strip(): no blank line at either end
RECURSIVE StripBlankLines(_)
StripBlankLines(doc) ==
    IF doc = <<>> THEN <<>>
    ELSE IF Head(doc).kind = "blank" THEN StripBlankLines(Tail(doc))
    ELSE IF doc[Len(doc)].kind = "blank"
    THEN StripBlankLines(SubSeq(doc, 1, Len(doc) - 1))
    ELSE doc

\* lines 146-178
normalize_whitespace(doc) == StripBlankLines(CollapseBlankLines(doc, FALSE))

\* Lines 218-253.  Steps 2 to 5 and 7 rewrite text inside a line; a header
\* line holds none of their patterns (no marker in brackets, no spam keyword,
\* under 200 characters, no filler, no sentence end followed by a blank), so
\* they leave it as it is, and a content line stays a line of transcript text.
clean_transcript(doc) ==
    normalize_whitespace(normalize_whitespace(remove_metadata_lines(doc)))

\* the merge of one input with a ledger of at most one record
CleanInit == MergeInit /\ Len(metadata_file.segments) <= 1

\* lines 256-280, process_file: the merged document is read and cleaned
Clean ==
    /\ merge_pc = "returned"
    /\ output_file # None
    /\ cleaned = None
    /\ cleaned' = <<clean_transcript(output_file[1])>>
    /\ UNCHANGED <<metadata_file, transcripts, merged_parts, warnings, merge_path,
                   output_writes, output_file, merge_ret, merge_pc>>

----------------------------------------------------------------------------
(* Specifications *)

\* a component that a specification does not run
PlanIdle ==
    /\ silences = <<>> /\ total_duration = 0 /\ min_len = 0 /\ max_len = 0
    /\ plan_pc = "idle" /\ segments = <<>> /\ branch = <<>>

ParseIdle ==
    /\ lines = <<>> /\ line_idx = 1 /\ silence_start = None
    /\ detected = <<>> /\ parse_pc = "idle"

ProcIdle ==
    /\ split_points = <<>> /\ silence_ratio_threshold = Frac(0, 1)
    /\ win_idx = 1 /\ silence_ratio = Frac(0, 1) /\ segment_index = 1
    /\ segments_metadata = <<>> /\ extract_calls = <<>> /\ proc_pc = "idle"
    /\ output_files = {} /\ ledger = None /\ ledger_writes = 0

MasterIdle ==
    /\ master_results = <<>> /\ master_warnings = <<>>
    /\ master_file = None /\ master_pc = "idle"

BatchIdle ==
    /\ audio_files = <<>> /\ file_idx = 1 /\ results = <<>> /\ stage_calls = <<>>
    /\ wav_deleted = {} /\ summary = None /\ batch_pc = "idle"

MergeIdle ==
    /\ metadata_file = LedgerFile("absent", FALSE, FALSE, <<>>)
    /\ transcripts = <<>> /\ merged_parts = <<>> /\ warnings = <<>>
    /\ merge_path = "none" /\ output_writes = 0 /\ output_file = None
    /\ merge_ret = FALSE /\ merge_pc = "idle" /\ cleaned = None

\* calculate_split_points on every input of the model
Init == PlanInit /\ ParseIdle /\ ProcIdle /\ MergeIdle /\ BatchIdle /\ MasterIdle

Next ==
    \/ (PlanReturn /\ UNCHANGED <<parseVars, procVars, mergeVars, batchVars, masterVars>>)
    \/ (PlanLoop /\ UNCHANGED <<parseVars, procVars, mergeVars, batchVars, masterVars>>)

Spec == Init /\ [][Next]_vars

\* detect_silences on every diagnostic stream of the model
ParseSpecInit == ParseInit /\ PlanIdle /\ ProcIdle /\ MergeIdle /\ BatchIdle /\ MasterIdle

ParseNext ==
    \/ (ParseStart /\ UNCHANGED <<planVars, procVars, mergeVars, batchVars, masterVars>>)
    \/ (ParseEnd /\ UNCHANGED <<planVars, procVars, mergeVars, batchVars, masterVars>>)
    \/ (ParseRaise /\ UNCHANGED <<planVars, procVars, mergeVars, batchVars, masterVars>>)
    \/ (ParseSkip /\ UNCHANGED <<planVars, procVars, mergeVars, batchVars, masterVars>>)
    \/ (ParseReturn /\ UNCHANGED <<planVars, procVars, mergeVars, batchVars, masterVars>>)

ParseSpec == ParseSpecInit /\ [][ParseNext]_vars

\* the loop of process_audio_file on the windows of every input of ProcInputs
ProcSpecInit == ProcInit /\ PlanIdle /\ ParseIdle /\ MergeIdle /\ BatchIdle /\ MasterIdle

ProcNext ==
    \/ (ProcSkip /\ UNCHANGED <<planVars, parseVars, mergeVars, batchVars, masterVars>>)
    \/ (ProcExtract /\ UNCHANGED <<planVars, parseVars, mergeVars, batchVars, masterVars>>)
    \/ (ProcExtractFails /\ UNCHANGED <<planVars, parseVars, mergeVars, batchVars, masterVars>>)
    \/ (ProcExtractRaises /\ UNCHANGED <<planVars, parseVars, mergeVars, batchVars, masterVars>>)
    \/ (ProcReturn /\ UNCHANGED <<planVars, parseVars, mergeVars, batchVars, masterVars>>)
    \/ (MainSave /\ UNCHANGED <<planVars, parseVars, mergeVars, batchVars, masterVars>>)
    \/ (MainSaveRaises /\ UNCHANGED <<planVars, parseVars, mergeVars, batchVars, masterVars>>)
    \/ (MainNoSegments /\ UNCHANGED <<planVars, parseVars, mergeVars, batchVars, masterVars>>)

ProcSpec == ProcSpecInit /\ [][ProcNext]_vars

\* merge_transcripts on every ledger file and transcript directory of the model
MergeSpecInit == MergeInit /\ PlanIdle /\ ParseIdle /\ ProcIdle /\ BatchIdle /\ MasterIdle

MergeNext ==
    \/ (MergeReturn /\ UNCHANGED <<planVars, parseVars, procVars, batchVars, masterVars>>)
    \/ (MergeRaise /\ UNCHANGED <<planVars, parseVars, procVars, batchVars, masterVars>>)

MergeSpec == MergeSpecInit /\ [][MergeNext]_vars

\* the batch on one input, from the splitter's first window to the summary
PipelineSpecInit == PipelineInit /\ PlanIdle /\ ParseIdle /\ MergeIdle /\ MasterIdle

PipelineNext ==
    \/ (ProcSkip /\ UNCHANGED <<planVars, parseVars, mergeVars, batchVars, masterVars>>)
    \/ (ProcExtract /\ UNCHANGED <<planVars, parseVars, mergeVars, batchVars, masterVars>>)
    \/ (ProcExtractFails /\ UNCHANGED <<planVars, parseVars, mergeVars, batchVars, masterVars>>)
    \/ (ProcExtractRaises /\ UNCHANGED <<planVars, parseVars, mergeVars, batchVars, masterVars>>)
    \/ (ProcReturn /\ UNCHANGED <<planVars, parseVars, mergeVars, batchVars, masterVars>>)
    \/ (MainSave /\ UNCHANGED <<planVars, parseVars, mergeVars, batchVars, masterVars>>)
    \/ (MainSaveRaises /\ UNCHANGED <<planVars, parseVars, mergeVars, batchVars, masterVars>>)
    \/ (MainNoSegments /\ UNCHANGED <<planVars, parseVars, mergeVars, batchVars, masterVars>>)
    \/ (PipelineProcess /\ UNCHANGED <<planVars, parseVars, procVars, mergeVars, masterVars>>)
    \/ (PipelineRaise /\ UNCHANGED <<planVars, parseVars, procVars, mergeVars, masterVars>>)
    \/ (BatchSummary /\ UNCHANGED <<planVars, parseVars, procVars, mergeVars, masterVars>>)

PipelineSpec == PipelineSpecInit /\ [][PipelineNext]_vars

\* merge_all_transcripts on the results of the model, in every order
MasterSpecInit ==
    MasterInit /\ PlanIdle /\ ParseIdle /\ ProcIdle /\ MergeIdle /\ BatchIdle

MasterNext ==
    MasterMerge /\ UNCHANGED <<planVars, parseVars, procVars, mergeVars, batchVars>>

MasterSpec == MasterSpecInit /\ [][MasterNext]_vars

\* merge_transcripts followed by clean_transcript on the document it wrote
CleanSpecInit == CleanInit /\ PlanIdle /\ ParseIdle /\ ProcIdle /\ BatchIdle /\ MasterIdle

CleanNext ==
    \/ (MergeReturn /\ UNCHANGED <<planVars, parseVars, procVars, batchVars, masterVars>>)
    \/ (MergeRaise /\ UNCHANGED <<planVars, parseVars, procVars, batchVars, masterVars>>)
    \/ (Clean /\ UNCHANGED <<planVars, parseVars, procVars, batchVars, masterVars>>)

CleanSpec == CleanSpecInit /\ [][CleanNext]_vars

\* merge_transcripts without a ledger, on the names the extractor gives
FallbackOrderSpecInit ==
    FallbackOrderInit /\ PlanIdle /\ ParseIdle /\ ProcIdle /\ BatchIdle /\ MasterIdle

FallbackOrderNext ==
    MergeReturn /\ UNCHANGED <<planVars, parseVars, procVars, batchVars, masterVars>>

FallbackOrderSpec == FallbackOrderSpecInit /\ [][FallbackOrderNext]_vars

\* the loop of the batch over the inputs it found
BatchSpecInit == BatchInit /\ PlanIdle /\ ParseIdle /\ ProcIdle /\ MergeIdle /\ MasterIdle

BatchNext ==
    \/ (BatchProcess /\ UNCHANGED <<planVars, parseVars, procVars, mergeVars, masterVars>>)
    \/ (BatchRaise /\ UNCHANGED <<planVars, parseVars, procVars, mergeVars, masterVars>>)
    \/ (BatchSummary /\ UNCHANGED <<planVars, parseVars, procVars, mergeVars, masterVars>>)

BatchSpec == BatchSpecInit /\ [][BatchNext]_vars

----------------------------------------------------------------------------
(* Properties of calculate_split_points *)

PlanInputs == [silences |-> silences, total_duration |-> total_duration,
               min_len |-> min_len, max_len |-> max_len]

WinLen(w) == w[2] - w[1]
Overlap(a, b) == a[1] < b[2] /\ b[1] < a[2]

\* the window appended after the loops: line 174, or the last tile of line 150
IsTerminal(k) ==
    \/ branch[k] = "final"
    \/ branch[k] = "tile" /\ k = Len(segments)

\* C1: for any silence list and total_duration > 0 with min_len <= max_len the
\* returned windows start at 0, each ends where the next starts, the last ends
\* at total_duration, and no two overlap.  Stated for 0 < min_len, where it
\* fails already.
C1_Coverage ==
    (plan_pc = "returned" /\ total_duration > 0
        /\ 0 < min_len /\ min_len <= max_len) =>
        /\ segments # <<>>
        /\ segments[1][1] = 0
        /\ \A k \in 1..(Len(segments) - 1) : segments[k][2] = segments[k + 1][1]
        /\ segments[Len(segments)][2] = total_duration
        /\ \A j, k \in 1..Len(segments) : j < k => ~Overlap(segments[j], segments[k])

\* C2: with min_len <= max_len every returned window has end > start, and the
\* result is empty only when total_duration is 0.  Stated for total_duration > 0
\* and 0 < max_len, where it fails already.
C2_PositiveLength ==
    (plan_pc = "returned" /\ total_duration > 0
        /\ min_len <= max_len /\ 0 < max_len) =>
        /\ \A k \in 1..Len(segments) : segments[k][2] > segments[k][1]
        /\ segments = <<>> => total_duration = 0

\* C3: with a non-empty silence list, every window committed before the
\* terminal remainder window, other than by the max-length override of line
\* 168, is at least min_segment_length long.
C3_MinRespected ==
    (plan_pc = "returned" /\ silences # <<>>) =>
        \A k \in 1..Len(segments) :
            (branch[k] # "final" /\ branch[k] # "max") =>
                WinLen(segments[k]) >= min_len

\* C3 witness: a returned plan with a window committed at line 164 and a
\* remainder window shorter than min_segment_length.
C3_Witness ==
    /\ plan_pc = "returned"
    /\ silences # <<>>
    /\ min_len > 0
    /\ \E k \in 1..Len(segments) : branch[k] = "min"
    /\ \E k \in 1..Len(segments) :
          branch[k] = "final" /\ WinLen(segments[k]) < min_len

\* C4: with min_len <= max_len every returned window other than the terminal
\* remainder window is at most max_segment_length long.  Stated for
\* total_duration > 0, 0 < min_len and silences that lie inside the audio,
\* where it fails already.
C4_MaxRespected ==
    (plan_pc = "returned" /\ total_duration > 0
        /\ 0 < min_len /\ min_len <= max_len
        /\ \A i \in 1..Len(silences) :
              0 <= silences[i].start /\ silences[i].end <= total_duration) =>
        \A k \in 1..Len(segments) :
            ~IsTerminal(k) => WinLen(segments[k]) <= max_len

\* C5: with an empty silence list the returned windows tile [0, total_duration):
\* window k starts at (k-1) * max_len, every window but the last is exactly
\* max_segment_length long, the last ends at total_duration with a length in
\* (0, max_len]; 250 s at 120 s gives (0,120), (120,240), (240,250).
C5_Tiling ==
    (plan_pc = "returned" /\ silences = <<>>) =>
        LET n == Len(segments) IN
        /\ total_duration > 0 => n > 0
        /\ \A k \in 1..n : segments[k][1] = (k - 1) * max_len
        /\ \A k \in 1..(n - 1) : WinLen(segments[k]) = max_len
        /\ n > 0 => /\ segments[n][2] = total_duration
                    /\ WinLen(segments[n]) > 0
                    /\ WinLen(segments[n]) <= max_len
        /\ PlanInputs = ScenarioTiling =>
              segments = << <<0, Secs(120)>>, <<Secs(120), Secs(240)>>,
                            <<Secs(240), Secs(250)>> >>

\* C5 witness: the 250 s scenario has returned its three windows.
C5_Witness ==
    /\ plan_pc = "returned"
    /\ PlanInputs = ScenarioTiling
    /\ Len(segments) = 3

\* C6: a window committed at line 164 ends at the midpoint of a silence and is
\* at least min_len long; total 180 s, silences (40,42) and (100,101), min 30,
\* max 120 gives exactly (0,41), (41,100.5), (100.5,180).
C6_MidpointSplit ==
    plan_pc = "returned" =>
        /\ \A k \in 1..Len(segments) :
              branch[k] = "min" =>
                 /\ \E i \in 1..Len(silences) :
                       2 * segments[k][2] = silences[i].start + silences[i].end
                 /\ WinLen(segments[k]) >= min_len
        /\ PlanInputs = ScenarioSilences =>
              segments = << <<0, Secs(41)>>, <<Secs(41), Secs(100) + 1>>,
                            <<Secs(100) + 1, Secs(180)>> >>

\* C6 witness: the 180 s scenario has returned its three windows.
C6_Witness ==
    /\ plan_pc = "returned"
    /\ PlanInputs = ScenarioSilences
    /\ Len(segments) = 3

----------------------------------------------------------------------------
(* Properties of detect_silences *)

\* a line the scan reads as an "end" event: tagged, with the silence_end
\* marker and a timestamp, and no silence_start in it
IsEndEvent(line) ==
    line.tagged /\ ~line.start_word /\ line.end_mark /\ line.tok.kind = "num"

\* C8: an "end" event read while a start is pending appends one interval
\* (pending start, end, end - pending start) after those already emitted and
\* clears the pending start; an "end" event with no pending start, any other
\* line, and the end of the stream append nothing.
C8_EndPairsWithPending ==
    [][ /\ (Scanning /\ IsEndEvent(lines[line_idx]) /\ silence_start # None) =>
              /\ detected' = Append(detected,
                     [start |-> silence_start[1],
                      end |-> lines[line_idx].tok.val,
                      duration |-> lines[line_idx].tok.val - silence_start[1]])
              /\ silence_start' = None
        /\ (Scanning /\ IsEndEvent(lines[line_idx]) /\ silence_start = None) =>
              /\ detected' = detected
              /\ silence_start' = None
        /\ (Scanning /\ ~IsEndEvent(lines[line_idx])) => detected' = detected
        /\ ~Scanning => detected' = detected
      ]_vars

\* C8 witness: the scan has returned one interval from a stream that began
\* with an "end" event and ended with a start still pending.
C8_Witness ==
    /\ parse_pc = "returned"
    /\ Len(lines) >= 1 /\ IsEndEvent(lines[1])
    /\ Len(detected) = 1 /\ detected[1].duration > 0
    /\ silence_start # None

\* a line with a silence_start or silence_end marker whose timestamp is not a
\* number
BadTimestamp(line) ==
    line.tagged /\ (line.start_mark \/ line.end_mark) /\ line.tok.kind # "num"

\* C9: a marker line whose timestamp fails to parse is skipped: the scan moves
\* to the next line with the pending start and the emitted intervals unchanged.
C9_BadTimestampSkipped ==
    [][ (Scanning /\ BadTimestamp(lines[line_idx])) =>
            /\ parse_pc' = "scan"
            /\ line_idx' = line_idx + 1
            /\ silence_start' = silence_start
            /\ detected' = detected
      ]_vars

\* C25: the max-length override of lines 168-170 commits a window only when
\* min_len exceeds max_len; for min_len <= max_len no window of the result,
\* returned or still growing, was committed by it.
C25_OverrideNeedsMinAboveMax ==
    (plan_pc \in {"returned", "looping"} /\ min_len <= max_len) =>
        \A k \in 1..Len(branch) : branch[k] # "max"

\* C25 witness: min_len <= max_len and two silences, of which one committed a
\* window at line 164 and the other failed both tests of lines 163 and 168.
C25_Witness ==
    /\ plan_pc = "returned"
    /\ 0 < min_len /\ min_len <= max_len
    /\ Len(silences) = 2
    /\ branch = <<"min", "final">>

\* C27: calculate_split_points returns for every input with min_len <= max_len
\* and total_duration > 0, also for an empty silence list with max_len 0.
C27_Terminates ==
    (total_duration > 0 /\ min_len <= max_len) => plan_pc # "looping"

----------------------------------------------------------------------------
(* Properties of process_audio_file *)

\* C10: a window is dropped (split_audio_segment is not called for it, no
\* record is appended, segment_index stays) when its measured ratio is
\* strictly above the threshold, and is handed to split_audio_segment
\* otherwise, also when the ratio equals the threshold; 0.95 against 0.9 drops.
C10_DropIffAboveThreshold ==
    [][ (InLoop /\ win_idx' = win_idx + 1) =>
            LET above ==
                    silence_ratio'.num * silence_ratio_threshold.den
                        > silence_ratio_threshold.num * silence_ratio'.den
                w == split_points[win_idx]
            IN  /\ above =>
                      /\ extract_calls' = extract_calls
                      /\ segments_metadata' = segments_metadata
                      /\ segment_index' = segment_index
                /\ ~above =>
                      /\ Len(extract_calls') = Len(extract_calls) + 1
                      /\ extract_calls'[Len(extract_calls')].start_time = w[1]
                      /\ extract_calls'[Len(extract_calls')].duration = w[2] - w[1]
                /\ (silence_ratio_threshold = Frac(9, 10)
                      /\ silence_ratio' = Frac(19, 20)) =>
                      /\ extract_calls' = extract_calls
                      /\ segments_metadata' = segments_metadata
                      /\ segment_index' = segment_index
      ]_vars

\* C10 witness: the first window was dropped and the second, measured at
\* exactly the threshold, was extracted and recorded with index 1.
C10_Witness ==
    /\ win_idx = 3
    /\ Len(extract_calls) = 1
    /\ Len(segments_metadata) = 1
    /\ segments_metadata[1].start_time = split_points[2][1]
    /\ segments_metadata[1].segment_index = 1
    /\ silence_ratio_threshold.num > 0
    /\ silence_ratio.num * silence_ratio_threshold.den
          = silence_ratio_threshold.num * silence_ratio.den

\* the calls in which split_audio_segment returned True
ExtractedCalls == {k \in 1..Len(extract_calls) : extract_calls[k].ok}

\* C11: once process_audio_file has returned, whatever mix of kept, dropped
\* and failed windows it went through, the records it returns carry the
\* segment_index values 1, 2, .., k in this order, with k the number of windows
\* that passed the filter and for which split_audio_segment returned True.
C11_DenseIndices ==
    proc_pc \in {"returned", "done", "exit1"} =>
        /\ Len(segments_metadata) = Cardinality(ExtractedCalls)
        /\ \A k \in 1..Len(segments_metadata) :
              segments_metadata[k].segment_index = k

\* C11 witness: of three windows the first was dropped, the second failed to
\* extract and the third was extracted; process_audio_file has returned.
C11_Witness ==
    /\ proc_pc = "returned"
    /\ Len(split_points) = 3
    /\ Len(extract_calls) = 2
    /\ extract_calls[1].start_time = split_points[2][1]
    /\ ~extract_calls[1].ok
    /\ Len(segments_metadata) = 1
    /\ segments_metadata[1].start_time = split_points[3][1]

\* C12: a step of the loop in which the extraction of the window fails (the
\* tool exits non-zero, is missing, or writes no output) appends no record and
\* goes on to the next window without leaving process_audio_file.
C12_FailureSkipsOneWindow ==
    [][ (/\ InLoop
         /\ Len(extract_calls') = Len(extract_calls) + 1
         /\ extract_calls'[Len(extract_calls')].tool # "written") =>
            /\ segments_metadata' = segments_metadata
            /\ proc_pc' = "loop"
            /\ win_idx' = win_idx + 1
      ]_vars

\* C13: metadata.json is written at most once for an input, only after every
\* planned window has been dropped, extracted or failed, and its segments
\* array is in ascending segment_index order.
C13_LedgerOnceAfterAllWindows ==
    /\ ledger_writes <= 1
    /\ ledger_writes > 0 =>
          /\ win_idx > Len(split_points)
          /\ proc_pc \notin {"loop", "returned"}
    /\ ledger # None =>
          /\ ledger_writes = 1
          /\ \A i, j \in 1..Len(ledger[1].segments) :
                i < j => ledger[1].segments[i].segment_index
                            < ledger[1].segments[j].segment_index

\* C13 witness: three windows, one of them dropped or failed, and the ledger
\* written with the two records of the others.
C13_Witness ==
    /\ proc_pc = "done"
    /\ Len(split_points) = 3
    /\ ledger # None
    /\ Len(ledger[1].segments) = 2
    /\ ledger[1].total_segments = 2

\* C26: the records of one input are in chronological order by
\* segment_index: of two records the one with the smaller index starts earlier
\* and ends no later than the other starts; each record's duration is
\* end_time - start_time and its filename is segment_ and the zero-padded
\* segment_index, so no two records share a filename.  Stated for runs in
\* which every extraction wrote its output, where it fails already.
C26_ChronologicalIndex ==
    (\A c \in 1..Len(extract_calls) : extract_calls[c].tool = "written") =>
    /\ \A i, j \in 1..Len(segments_metadata) :
          segments_metadata[i].segment_index < segments_metadata[j].segment_index =>
             /\ segments_metadata[i].start_time < segments_metadata[j].start_time
             /\ segments_metadata[i].end_time <= segments_metadata[j].start_time
    /\ \A k \in 1..Len(segments_metadata) :
          /\ segments_metadata[k].duration
                = segments_metadata[k].end_time - segments_metadata[k].start_time
          /\ segments_metadata[k].filename
                = SegmentFilename(segments_metadata[k].segment_index)
    /\ \A i, j \in 1..Len(segments_metadata) :
          i # j => segments_metadata[i].filename # segments_metadata[j].filename

----------------------------------------------------------------------------
(* Properties of merge_transcripts *)

\* the file named in the header of each block of parts, block by block
HeaderFiles(parts) == [k \in 1..(Len(parts) \div 3) |-> parts[3 * k - 2].file]

\* the record's transcript exists and holds text
ProducesBlock(seg) ==
    /\ TxtName(seg.filename) \in DOMAIN transcripts
    /\ transcripts[TxtName(seg.filename)] = "text"

\* the records of segs that produce a block, in the order of segs
RECURSIVE BlockRecords(_)
BlockRecords(segs) ==
    IF segs = <<>> THEN <<>>
    ELSE (IF ProducesBlock(Head(segs)) THEN <<Head(segs)>> ELSE <<>>)
            \o BlockRecords(Tail(segs))

\* every record of the ledger on disk has the key 'filename'
NamedRecords ==
    \A k \in 1..Len(metadata_file.segments) : metadata_file.segments[k].has_filename

\* C14: when merge_transcripts has gone through the ledger, the blocks of the
\* merged document are those of the ledger's records that have a transcript
\* with text, in the order of the records in the ledger, whatever the order in
\* which the directory lists the transcript files.
C14_BlocksInLedgerOrder ==
    (merge_pc = "returned" /\ merge_path = "ledger") =>
        LET kept == BlockRecords(metadata_file.segments)
        IN  HeaderFiles(merged_parts) = [k \in 1..Len(kept) |-> kept[k].filename]

\* C14 witness: the ledger lists segment 2 before segment 1, both transcripts
\* hold text, and the merged document has the two blocks.
C14_Witness ==
    /\ merge_pc = "returned"
    /\ merge_path = "ledger"
    /\ Len(metadata_file.segments) = 2
    /\ metadata_file.segments[1] = LedgerRecord(2)
    /\ metadata_file.segments[2] = LedgerRecord(1)
    /\ Len(merged_parts) = 6

\* the positions of the ledger's records whose transcript file is absent
AbsentRecords ==
    {k \in 1..Len(metadata_file.segments) :
        TxtName(metadata_file.segments[k].filename) \notin DOMAIN transcripts}

\* seq without its k-th element
RemoveAt(seq, k) ==
    [j \in 1..(Len(seq) - 1) |-> IF j < k THEN seq[j] ELSE seq[j + 1]]

\* the warnings of this kind
WarningsOf(kind) == {k \in 1..Len(warnings) : warnings[k].kind = kind}

\* C15: on the ledger path (all records carrying a filename), the call
\* returns; a record whose transcript file is absent leaves no block and
\* exactly one "not found" warning, and the parts collected are those of the
\* same merge over the ledger without that record.
C15_AbsentTranscriptSkipped ==
    (/\ merge_pc \in {"returned", "raised"}
     /\ merge_path = "ledger"
     /\ metadata_file.segments_is_list
     /\ NamedRecords) =>
        /\ merge_pc = "returned"
        /\ Cardinality(WarningsOf("not_found")) = Cardinality(AbsentRecords)
        /\ \A k \in AbsentRecords :
              LET seg == metadata_file.segments[k]
                  without == LedgerFile("object", TRUE, TRUE,
                                        RemoveAt(metadata_file.segments, k))
              IN  /\ \E w \in WarningsOf("not_found") :
                        warnings[w].file = TxtName(seg.filename)
                  /\ \A b \in 1..Len(HeaderFiles(merged_parts)) :
                        HeaderFiles(merged_parts)[b] # seg.filename
                  /\ merged_parts
                        = merge_transcripts(without, transcripts, <<>>, TRUE).parts

\* C15 witness: the first of two records has no transcript, the second has
\* one with text; the call returned with one warning and one block.
C15_Witness ==
    /\ merge_pc = "returned"
    /\ merge_path = "ledger"
    /\ NamedRecords
    /\ Len(metadata_file.segments) = 2
    /\ AbsentRecords = {1}
    /\ Len(warnings) = 1
    /\ Len(merged_parts) = 3

\* the ledger file states of C16
CorruptLedger ==
    \/ metadata_file.kind # "object"
    \/ metadata_file.has_segments /\ ~metadata_file.segments_is_list
    \/ ~NamedRecords

\* C16: whatever is wrong with the ledger file (absent, not JSON, JSON that
\* is not an object, 'segments' that is not a list, a record without
\* 'filename'), merge_transcripts returns instead of raising, has logged the
\* degraded-mode warning and has merged through the fallback path.  Stated
\* for the last two of these states, the corrupt JSON objects, where it fails
\* already.
C16_CorruptLedgerFallsBack ==
    (/\ merge_pc \in {"returned", "raised"}
     /\ CorruptLedger
     /\ metadata_file.kind = "object") =>
        /\ merge_pc = "returned"
        /\ merge_path = "fallback"
        /\ WarningsOf("load_failed") # {}

\* the transcript files no record of the ledger names
UnlistedTranscripts ==
    {f \in DOMAIN transcripts :
        \A k \in 1..Len(metadata_file.segments) :
           TxtName(metadata_file.segments[k].filename) # f}

\* C17: the ledger path is taken only for a ledger that is present and lists
\* at least one record; a readable ledger that lists none, or that leaves out
\* a transcript file that exists, is merged through the fallback path.
\* Stated for directories that hold a transcript with text, where it fails
\* already.
C17_IncompleteLedgerFallsBack ==
    (/\ merge_pc = "returned"
     /\ \E f \in DOMAIN transcripts : transcripts[f] = "text"
     /\ metadata_file.kind = "object"
     /\ metadata_file.has_segments /\ metadata_file.segments_is_list
     /\ NamedRecords) =>
        /\ merge_path = "ledger" => metadata_file.segments # <<>>
        /\ (metadata_file.segments = <<>> \/ UnlistedTranscripts # {}) =>
              merge_path = "fallback"

\* the number a sequence of decimal digits denotes
RECURSIVE DigitsValue(_)
DigitsValue(ds) ==
    IF ds = <<>> THEN 0 ELSE 10 * DigitsValue(SubSeq(ds, 1, Len(ds) - 1)) + ds[Len(ds)]

\* the blocks of the merged document are in ascending segment_index order
AscendingBlocks ==
    \A i, j \in 1..Len(HeaderFiles(merged_parts)) :
       i < j => DigitsValue(HeaderFiles(merged_parts)[i].digits)
                   < DigitsValue(HeaderFiles(merged_parts)[j].digits)

\* C18 as claimed: for transcripts named as the extractor names segments, the
\* fallback's sort by name puts the blocks in ascending segment_index order,
\* however many segments there are.
C18_FallbackOrderAnyCount ==
    (merge_pc = "returned" /\ merge_path = "fallback") => AscendingBlocks

\* C18 amended: the same, for segment indices up to 999, the ones the
\* three-digit padding covers.
C18_FallbackOrderUpTo999 ==
    (/\ merge_pc = "returned"
     /\ merge_path = "fallback"
     /\ \A f \in DOMAIN transcripts : DigitsValue(f.digits) <= 999) =>
        /\ AscendingBlocks
        /\ Len(merged_parts)
              = 3 * Cardinality({f \in DOMAIN transcripts : transcripts[f] = "text"})

\* C18 witness: the transcripts of segments 9, 10 and 999 merged by the fallback.
C18_Witness ==
    /\ merge_pc = "returned"
    /\ merge_path = "fallback"
    /\ DOMAIN transcripts = {TranscriptName(9), TranscriptName(10), TranscriptName(999)}
    /\ Len(merged_parts) = 9

\* C19 as claimed: the document is written at most once, and the call
\* returns failure when no block was collected and success otherwise.
C19_SuccessIffBlocks ==
    /\ output_writes <= 1
    /\ merge_pc = "returned" => (merge_ret <=> merged_parts # <<>>)

\* C19 amended: the document is written at most once, and not at all when no
\* block was collected; the call returns success exactly when at least one
\* block was collected and writing the document succeeded, so also for a
\* partial merge; a failed write returns failure.
C19_SuccessIffBlocksWritten ==
    /\ output_writes <= 1
    /\ merged_parts = <<>> => output_writes = 0
    /\ merge_pc = "returned" =>
          /\ merge_ret <=> (merged_parts # <<>> /\ output_file = <<merged_parts>>)
          /\ merged_parts # <<>> => output_writes = 1
          /\ ~merge_ret => output_file = None

\* C19 witness: a partial merge on the ledger path, one record without a
\* transcript and one block written, returned success.
C19_Witness ==
    /\ merge_pc = "returned"
    /\ merge_path = "ledger"
    /\ Len(warnings) = 1
    /\ Len(merged_parts) = 3
    /\ output_writes = 1
    /\ merge_ret

----------------------------------------------------------------------------
(* Properties of the batch *)

\* C20: when the batch is over, whatever failed for any of its inputs
\* (preprocessing, transcription, the merge, a corrupt ledger, an unwritable
\* output), there is exactly one result per input found, in the order found.
\* Stated for batches of two inputs or more, where it fails already.
C20_OneResultPerInput ==
    (batch_pc \in {"done", "raised"} /\ Len(audio_files) >= 2) =>
        /\ Len(results) = Len(audio_files)
        /\ \A k \in 1..Len(audio_files) : results[k].file = audio_files[k]

\* seq is an initial part of Stages
IsStagePrefix(seq) == Len(seq) <= Len(Stages) /\ seq = SubSeq(Stages, 1, Len(seq))

\* the stages called for the input file, in call order
RECURSIVE StagesOf(_, _)
StagesOf(file, calls) ==
    IF calls = <<>> THEN <<>>
    ELSE (IF Head(calls).file = file THEN <<Head(calls).stage>> ELSE <<>>)
            \o StagesOf(file, Tail(calls))

\* C22: when the batch has ended, every result that is not a success carries
\* an error naming the stage that failed, and the summary lists each of these
\* results exactly once.
C22_SummaryListsFailures ==
    batch_pc \in {"done", "raised"} =>
        \A k \in 1..Len(results) :
           ~results[k].success =>
              /\ results[k].error \in {<<"Preprocessing failed">>,
                                       <<"Transcription failed">>,
                                       <<"Merge failed">>}
              /\ summary # None
              /\ Cardinality({n \in 1..Len(summary[1]) :
                                 summary[1][n].file = results[k].file}) = 1
              /\ \E n \in 1..Len(summary[1]) :
                    summary[1][n] = [file |-> results[k].file,
                                     error |-> results[k].error]

\* C24: for every input the stage functions are called in the order
\* preprocess, transcribe, merge, cleanup, each only when the one before has
\* succeeded; steps_completed is always an initial part of that list, and
\* success is true exactly when it is the whole list.
C24_StagesInOrder ==
    /\ \A f \in 1..Len(audio_files) : IsStagePrefix(StagesOf(audio_files[f], stage_calls))
    /\ \A k \in 1..Len(results) :
          /\ IsStagePrefix(results[k].steps_completed)
          /\ results[k].success <=> results[k].steps_completed = Stages
          /\ LET called == StagesOf(results[k].file, stage_calls)
             IN  \/ called = results[k].steps_completed
                 \/ /\ ~results[k].success
                    /\ called = SubSeq(Stages, 1, Len(results[k].steps_completed) + 1)

\* C24 witness: the batch is over with one input of each outcome: a success,
\* and a failure of the merge after two completed stages.
C24_Witness ==
    /\ batch_pc = "done"
    /\ \E k \in 1..Len(results) : results[k].success
    /\ \E k \in 1..Len(results) :
          results[k].steps_completed = <<"preprocess", "transcribe">>

\* C28: the segment audio files of an input are unlinked only after
\* merge_transcripts has returned True for it: cleanup_segments is called
\* after the merge call and the input's result has the merge among its
\* completed steps; an input whose preprocess, transcribe or merge failed,
\* or whose merge raised, keeps its segment files.
C28_CleanupAfterMerge ==
    /\ \A f \in wav_deleted :
          /\ StagesOf(f, stage_calls) = Stages
          /\ \E k \in 1..Len(results) :
                /\ results[k].file = f
                /\ \E s \in 1..Len(results[k].steps_completed) :
                      results[k].steps_completed[s] = "merge"
    /\ \A k \in 1..Len(results) :
          ~results[k].success =>
             /\ results[k].file \notin wav_deleted
             /\ \A c \in 1..Len(stage_calls) :
                   stage_calls[c] # [file |-> results[k].file, stage |-> "cleanup"]

\* C28 witness: the first input's merge failed and its files are kept, the
\* second input was merged and cleaned up.
C28_Witness ==
    /\ Len(results) = 2
    /\ results[1].error = <<"Merge failed">>
    /\ results[2].success
    /\ wav_deleted = {audio_files[2]}

\* the merged document is a run of blocks: header, content, blank line
InBlocks(parts) ==
    /\ Len(parts) % 3 = 0
    /\ \A k \in 1..(Len(parts) \div 3) :
          /\ parts[3 * k - 2].kind = "header"
          /\ parts[3 * k - 1].kind = "content"
          /\ parts[3 * k].kind = "blank"

\* C23: when merge_transcripts has returned, on the ledger path as on the
\* fallback path, every block of the merged document is a header
\* '=== <filename> (<start>s - <end>s) ===' that carries the timing, then the
\* content, then a blank line.
C23_EveryHeaderTimed ==
    merge_pc = "returned" =>
        /\ InBlocks(merged_parts)
        /\ \A k \in 1..(Len(merged_parts) \div 3) : merged_parts[3 * k - 2].timed

\* C23 as amended: every block is a header, then the content, then a blank
\* line; on the ledger path the header names the record's audio file and
\* carries the record's start and end time, on the fallback path the header
\* is '=== <transcript file name> ===' and carries no timing.
C23_HeaderTimedOnLedgerPath ==
    merge_pc = "returned" =>
        /\ InBlocks(merged_parts)
        /\ \A k \in 1..(Len(merged_parts) \div 3) :
              LET h == merged_parts[3 * k - 2]
              IN  /\ merge_path = "ledger" =>
                        \E s \in 1..Len(metadata_file.segments) :
                           h = Header(metadata_file.segments[s].filename, TRUE,
                                      metadata_file.segments[s].start_time,
                                      metadata_file.segments[s].end_time)
                  /\ merge_path = "fallback" =>
                        /\ h.file \in DOMAIN transcripts
                        /\ h = Header(h.file, FALSE, 0, 0)

\* C23 witness: a merge without a usable ledger has written two blocks.
C23_Witness ==
    /\ merge_pc = "returned"
    /\ merge_path = "fallback"
    /\ Len(merged_parts) = 6
    /\ merge_ret

----------------------------------------------------------------------------
(* Properties of clean_transcript *)

\* C29: no header that merge_transcripts wrote is left in the cleaned
\* document, whether it is '=== segment_NNN.wav (..s - ..s) ===' of the
\* ledger path or '=== segment_NNN.txt ===' of the fallback path.
C29_NoHeaderSurvives ==
    cleaned # None =>
        \A k \in 1..Len(cleaned[1]) : cleaned[1][k].kind # "header"

----------------------------------------------------------------------------
(* Properties of the batch with the splitter as its preprocess stage *)

\* C30: when the splitter has exited and no window survived the filter and
\* the extraction, it has written no ledger and has not exited with success;
\* the batch then records the input as failed with 'Preprocessing failed',
\* with no completed step, and calls neither the transcription nor the merge
\* nor the cleanup for it.
C30_NoSurvivorFailsPreprocess ==
    (Exited /\ segments_metadata = <<>>) =>
        /\ returncode(proc_pc) # 0
        /\ ledger = None
        /\ ledger_writes = 0
        /\ batch_pc # "raised"
        /\ wav_deleted = {}
        /\ \A c \in 1..Len(stage_calls) : stage_calls[c].stage = "preprocess"
        /\ \A k \in 1..Len(results) :
              results[k] = Result(audio_files[k], FALSE, <<>>, <<"Preprocessing failed">>)
        /\ batch_pc = "done" => Len(results) = 1

\* C30 witness: the splitter went through at least one planned window, kept
\* none and left by sys.exit(1); the batch has recorded the failed input and
\* printed its summary.
C30_Witness ==
    /\ proc_pc = "exit1"
    /\ Len(split_points) >= 1
    /\ results = <<Result(1, FALSE, <<>>, <<"Preprocessing failed">>)>>
    /\ stage_calls = <<[file |-> 1, stage |-> "preprocess"]>>
    /\ batch_pc = "done"

----------------------------------------------------------------------------
(* Properties of merge_all_transcripts *)

\* the results that give a section of the master document
GivesSection(r) == r.success /\ r.merged = "text"

\* C21: the sections of the master document are in ascending order of the
\* input file name as a string, in whatever order the results came and
\* whether or not a date label could be read from a name; they are the
\* sections of the successful results with a non-empty merged transcript,
\* each once, numbered from 1.
C21_SectionsByFilename ==
    (master_pc = "returned" /\ master_file # None) =>
        LET sections == master_file[1]
        IN  /\ \A i, j \in 1..Len(sections) :
                  i < j => LexLess(NameString(sections[i].source_file),
                                   NameString(sections[j].source_file))
            /\ {sections[i].source_file : i \in 1..Len(sections)} =
                  {master_results[k].file :
                      k \in {x \in 1..Len(master_results) : GivesSection(master_results[x])}}
            /\ \A i \in 1..Len(sections) :
                  /\ sections[i].index = i
                  /\ sections[i].date_str = DateStr(sections[i].source_file.stem)

\* C21 witness: three results that all give a section came in descending
\* order of name, one of them without a date label, and the document has
\* the three sections.
C21_Witness ==
    /\ master_pc = "returned"
    /\ master_file # None
    /\ Len(master_results) = 3
    /\ Len(master_file[1]) = 3
    /\ \A k \in 1..2 : LexLess(NameString(master_results[k + 1].file),
                               NameString(master_results[k].file))
    /\ \E i \in 1..3 : ~master_file[1][i].date_str.known
    /\ \E i \in 1..3 : master_file[1][i].date_str.known

====
